---- MODULE Spec2Model ----
(***************************************************************************)
(* The asynchronous file logger of memcached                               *)
(* (extensions/loggers/file_logger.c): producer threads append rendered    *)
(* records to the active one of two buffers under a mutex; a flusher       *)
(* thread swaps the buffers, writes the inactive one to the current log    *)
(* file without the mutex, rotates the file by size, and drains what is    *)
(* left at shutdown.                                                       *)
(***************************************************************************)
EXTENDS Integers, Sequences, FiniteSets, TLC

\* ------------------------------------------------------------------ bounds
\* Number of producer threads calling add_log_entry.
NProducers == 2
\* Total number of add_log_entry calls made in one run.
MaxRecords == 3
\* Largest rendered record, in bytes; the records are one byte or that long.
MaxSize == 3
\* An earlier run left no file, or the files with the ids 0..MaxOldId.
MaxOldId == 0
\* Configuration (scaled down): buffer capacity, rotation threshold and
\* flush interval in seconds.
buffersz == 5
cyclesz == 2
sleeptime == 1
\* Number of log levels; the highest is EXTENSION_LOG_WARNING.
MaxLevel == 2

Producers == 1..NProducers
Sizes == {1, MaxSize}

\* EXTENSION_LOG_LEVEL: the levels in ascending order of severity.
Levels == 1..MaxLevel
EXTENSION_LOG_WARNING == MaxLevel

\* line 221: the longest record logger_log can render (sizeof(buffer) - 1).
\* buffersz is whatever the configuration says (line 435), so the longest
\* record may be as long as a buffer, as with buffersize=2047.
MaxLine == buffersz

\* The lengths logger_log renders: those of Sizes, the longest that fits its
\* buffer, and one that does not fit.
LineSizes == Sizes \cup {MaxLine, MaxLine + 1}

\* A missing file handle; the mutex is free or held by the flusher (the
\* critical sections of the other threads are single steps).
NULL == 0
UNLOCKED == "unlocked"
WORKER == "worker"

VARIABLES
    buffers,     \* buffers[b] = [data |-> bytes 1..buffersz, offset |-> used bytes]
    currbuffer,  \* index of the buffer producers insert into
    run,         \* cleared by exit_handler
    mutex,       \* UNLOCKED, or WORKER while the flusher holds the mutex
    ppc,         \* producer position in add_log_entry
    psize,       \* size of the record a blocked producer is appending
    wpc,         \* flusher position in logger_thead_main
    fp,          \* flusher's file handle: index into files, or NULL
    currsize,    \* bytes written since the last rotation
    next_id,     \* open_logfile's static counter
    this,        \* buffer the flusher is draining
    towrite,     \* flush_pending_io: bytes left to write
    ptr,         \* flush_pending_io: bytes of the buffer already written
    ret,         \* flush_pending_io: its return value
    expired,     \* tp.tv_sec >= next for the tp sampled at the loop head
    due,         \* seconds from now until next (0: next has been reached)
    epc,         \* position of the thread running exit_handler
    files,       \* files opened by this run, in opening order
    old,         \* rotation ids that existed before this run
    freed,       \* buffers[0].data and buffers[1].data have been freed
    crashed,     \* the process died on an invalid memory or handle access
    accepted,    \* history: sizes of the records copied in, in copy order
    wstate,      \* history: "waiting" since the producer began to wait,
                 \*          "swapped" once the flusher swapped since then
    atStop,      \* history: number of records accepted when run was cleared
    current_log_level,  \* records below this level are not persisted
    output_level,       \* records at or above this level go to stderr
    mirror,      \* the records written to stderr at lines 274-277, as numbers
                 \* of the calls of logger_log they came from
    ncalls,      \* history: number of calls of logger_log so far
    lastcall     \* history: the inputs of the latest call of logger_log

coreVars == <<buffers, currbuffer, run, mutex, ppc, psize, wpc, fp, currsize,
              next_id, this, towrite, ptr, ret, expired, due, epc, files, old,
              freed, crashed, accepted, wstate, atStop>>

logVars == <<current_log_level, output_level, mirror, ncalls, lastcall>>

vars == <<coreVars, logVars>>

prodVars == <<ppc, psize, wstate>>
flushVars == <<this, towrite, ptr, ret>>
fileVars == <<fp, currsize, next_id, files>>
timeVars == <<expired, due>>

\* ----------------------------------------------------------------- helpers
\* The k-th byte of the i-th accepted record.
Byte(i, k) == <<i, k>>
\* A byte of a buffer that no record was ever copied to.
Unwritten == <<0, 0>>

RECURSIVE Concat(_)
Concat(ss) == IF ss = <<>> THEN <<>> ELSE Head(ss) \o Concat(Tail(ss))

\* The bytes of the accepted records, in copy order.
AcceptedBytes ==
    Concat([i \in 1..Len(accepted) |-> [k \in 1..accepted[i] |-> Byte(i, k)]])

\* The bytes on disk: the files of this run concatenated in opening order.
WrittenBytes == Concat([i \in 1..Len(files) |-> files[i].data])

\* The used part of buffer b.
BufBytes(b) == SubSeq(buffers[b].data, 1, buffers[b].offset)

IsPrefix(s, t) == Len(s) <= Len(t) /\ s = SubSeq(t, 1, Len(s))

\* ------------------------------------------------------- pthread primitives
\* An unlock that is left out.
pthread_mutex_unlock_missing(t) == t

pthread_mutex_unlock(t) == UNLOCKED

\* pthread_cond_signal(&cond): the flusher is the only waiter.
pthread_cond_signal(w) == IF w = "timedwait" THEN "wakelock" ELSE w

\* pthread_cond_broadcast(&space_cond): every waiting producer is woken and
\* has to take the mutex again.
pthread_cond_broadcast(pcs) ==
    [p \in Producers |-> IF pcs[p] = "wait" THEN "relock" ELSE pcs[p]]

\* ------------------------------------------------------------ add_log_entry
\* A wait for room that forgets the size of the record.
NoRoom_ignores_size(off, size) == off >= buffersz

\* A wait for room that lets a record fill the buffer to the last byte.
NoRoom_strict(off, size) == (off + size) > buffersz

\* line 176: the loop condition of the wait for room
NoRoom(off, size) == (off + size) >= buffersz

\* A high-water mark at the very end of the buffer.
NearlyFull_full(off) == off >= buffersz

\* line 188: offset > buffersz * 0.75
NearlyFull(off) == off * 4 > buffersz * 3

\* A copy to the start of the buffer instead of to its current offset.
memcpy_at_start(d, off, size, id) ==
    [i \in DOMAIN d |-> IF i <= size THEN Byte(id, i) ELSE d[i]]

\* A copy that leaves out the last byte of the record.
memcpy_short(d, off, size, id) ==
    [i \in DOMAIN d |->
        IF off < i /\ i < off + size THEN Byte(id, i - off) ELSE d[i]]

\* line 185: memcpy(data + offset, msg, size); the record is the id-th accepted
memcpy(d, off, size, id) ==
    [i \in DOMAIN d |->
        IF off < i /\ i <= off + size THEN Byte(id, i - off) ELSE d[i]]

\* Calls that have not returned yet.
InFlight == Cardinality({p \in Producers : ppc[p] # "idle"})

\* lines 185-192: copy the record of s bytes, advance the offset, signal the
\* flusher when the buffer is nearly full, unlock and return
CopyIn(p, s) ==
    /\ LET off == buffers[currbuffer].offset
       IN  /\ buffers' = [buffers EXCEPT ![currbuffer] =
                   [data   |-> memcpy(@.data, off, s, Len(accepted) + 1),
                    offset |-> off + s]]
           /\ wpc' = IF NearlyFull(off + s)
                     THEN pthread_cond_signal(wpc) ELSE wpc
    /\ accepted' = Append(accepted, s)
    /\ ppc' = [ppc EXCEPT ![p] = "idle"]
    /\ psize' = [psize EXCEPT ![p] = 0]
    /\ wstate' = [wstate EXCEPT ![p] = "none"]
    /\ UNCHANGED <<currbuffer, run, mutex, epc, old, freed, crashed, atStop>>
    /\ UNCHANGED <<flushVars, fileVars, timeVars>>

\* lines 176-178: no room for s bytes; wait on space_cond, which releases the
\* mutex
WaitForSpace(p, s) ==
    /\ ppc' = [ppc EXCEPT ![p] = "wait"]
    /\ psize' = [psize EXCEPT ![p] = s]
    /\ wstate' = [wstate EXCEPT ![p] = "waiting"]
    /\ UNCHANGED <<buffers, currbuffer, run, mutex, wpc, epc, old, freed,
                   crashed, accepted, atStop>>
    /\ UNCHANGED <<flushVars, fileVars, timeVars>>

\* add_log_entry(msg, s), lines 174-192 with room at once: one critical
\* section
P_Append(p) ==
    /\ ~crashed
    /\ UNCHANGED logVars
    /\ ppc[p] = "idle"
    /\ mutex = UNLOCKED
    /\ Len(accepted) + InFlight < MaxRecords
    /\ \E s \in Sizes :
        /\ ~NoRoom(buffers[currbuffer].offset, s)
        /\ CopyIn(p, s)

\* add_log_entry(msg, s), lines 174-178 without room
P_Block(p) ==
    /\ ~crashed
    /\ UNCHANGED logVars
    /\ ppc[p] = "idle"
    /\ mutex = UNLOCKED
    /\ Len(accepted) + InFlight < MaxRecords
    /\ \E s \in Sizes :
        /\ NoRoom(buffers[currbuffer].offset, s)
        /\ WaitForSpace(p, s)

\* pthread_cond_wait may return without a broadcast
P_Spurious(p) ==
    /\ ~crashed
    /\ UNCHANGED logVars
    /\ ppc[p] = "wait"
    /\ ppc' = [ppc EXCEPT ![p] = "relock"]
    /\ UNCHANGED <<buffers, currbuffer, run, mutex, psize, wstate, wpc, epc,
                   old, freed, crashed, accepted, atStop>>
    /\ UNCHANGED <<flushVars, fileVars, timeVars>>

\* pthread_cond_wait returns with the mutex; line 176 finds no room again
P_Recheck(p) ==
    /\ ~crashed
    /\ UNCHANGED logVars
    /\ ppc[p] = "relock"
    /\ mutex = UNLOCKED
    /\ NoRoom(buffers[currbuffer].offset, psize[p])
    /\ WaitForSpace(p, psize[p])

\* pthread_cond_wait returns with the mutex; line 176 finds room
P_Resume(p) ==
    /\ ~crashed
    /\ UNCHANGED logVars
    /\ ppc[p] = "relock"
    /\ mutex = UNLOCKED
    /\ ~NoRoom(buffers[currbuffer].offset, psize[p])
    /\ CopyIn(p, psize[p])

\* line 185 after the flusher freed the buffers (lines 382-383): the memcpy
\* writes to freed memory; besides appearing to work (P_Append, P_Resume) it
\* may kill the process
P_UseAfterFree(p) ==
    /\ ~crashed
    /\ UNCHANGED logVars
    /\ freed
    /\ mutex = UNLOCKED
    /\ \/ /\ ppc[p] = "idle"
          /\ Len(accepted) + InFlight < MaxRecords
          /\ \E s \in Sizes : ~NoRoom(buffers[currbuffer].offset, s)
       \/ /\ ppc[p] = "relock"
          /\ ~NoRoom(buffers[currbuffer].offset, psize[p])
    /\ crashed' = TRUE
    /\ UNCHANGED <<buffers, currbuffer, run, mutex, wpc, epc, old, freed,
                   accepted, atStop>>
    /\ UNCHANGED <<prodVars, flushVars, fileVars, timeVars>>

\* ---------------------------------------------------------------- logger_log
\* A mirror test that leaves out the records at the threshold.
Mirror_above(severity) == severity > output_level

\* line 274
Mirror(severity) == severity >= output_level

\* line 279
Persist(severity) == severity >= current_log_level

\* add_log_entry(msg, s), lines 174-192 up to the return or the wait
add_log_entry(p, s) ==
    IF NoRoom(buffers[currbuffer].offset, s)
    THEN WaitForSpace(p, s)
    ELSE CopyIn(p, s)

\* logger_log(severity, cookie, fmt, ...), lines 216-285: the record renders
\* to len bytes; clock: gettimeofday succeeded.  One step up to the return or
\* the wait for room; a call that appends takes its step when it gets the
\* mutex.
logger_log(p) ==
    /\ crashed = FALSE
    /\ ppc[p] = "idle"
    /\ ncalls < MaxRecords
    /\ \E severity \in Levels, len \in LineSizes, clock \in BOOLEAN :
        /\ ncalls' = ncalls + 1
        /\ lastcall' = [p |-> p, severity |-> severity,
                        fits |-> len <= MaxLine, clock |-> clock]
        /\ UNCHANGED <<current_log_level, output_level>>
        /\ IF /\ Persist(severity) \/ Mirror(severity)
              /\ clock
              /\ len <= MaxLine
           THEN /\ mirror' = IF Mirror(severity)
                             THEN Append(mirror, ncalls + 1) ELSE mirror
                /\ IF Persist(severity)
                   THEN mutex = UNLOCKED /\ add_log_entry(p, len)
                   ELSE UNCHANGED coreVars
           ELSE UNCHANGED <<mirror, coreVars>>

\* lines 405-410: the server tells the logger that the log level changed
on_log_level ==
    /\ crashed = FALSE
    /\ \E l \in Levels : current_log_level' = l
    /\ UNCHANGED <<output_level, mirror, ncalls, lastcall, coreVars>>

\* ------------------------------------------------------------- open_logfile
Existing == old \cup {files[i].id : i \in 1..Len(files)}

\* A probe that takes the counter as it is.
ProbeId_none(n) == n

\* lines 291-293: the first id from n on whose file name does not exist
RECURSIVE ProbeId(_)
ProbeId(n) == IF n \in Existing THEN ProbeId(n + 1) ELSE n

\* lines 288-299; ok: iops.open returned a handle
open_logfile(fs, ok) ==
    LET id == ProbeId(next_id)
    IN  /\ next_id' = id + 1
        /\ IF ok
           THEN /\ files' = Append(fs, [id |-> id, data |-> <<>>, open |-> TRUE])
                /\ fp' = Len(fs) + 1
           ELSE /\ files' = fs
                /\ fp' = NULL

\* lines 301-305
close_logfile(fs, h) ==
    IF h # NULL THEN [fs EXCEPT ![h].open = FALSE] ELSE fs

\* --------------------------------------------------------- logger_thead_main
\* lines 337-339
W_Open ==
    /\ ~crashed
    /\ UNCHANGED logVars
    /\ wpc = "open"
    /\ \E ok \in BOOLEAN : open_logfile(files, ok)
    /\ currsize' = 0
    /\ due' = 0
    /\ wpc' = "lock"
    /\ UNCHANGED <<buffers, currbuffer, run, mutex, epc, old, freed, crashed,
                   accepted, atStop, expired>>
    /\ UNCHANGED <<prodVars, flushVars>>

\* A clock test that never finds the deadline reached.
Elapsed_never(d) == FALSE

\* line 346: tp.tv_sec >= next, for a tp sampled d seconds before next
Elapsed(d) == d = 0

\* line 341, or the return of pthread_cond_timedwait with the mutex, then
\* lines 342-344: test run and sample the time
W_Lock ==
    /\ ~crashed
    /\ UNCHANGED logVars
    /\ wpc \in {"lock", "wakelock"}
    /\ mutex = UNLOCKED
    /\ mutex' = WORKER
    /\ IF run = 1
       THEN wpc' = "inner" /\ expired' = Elapsed(due)
       ELSE wpc' = "final" /\ expired' = expired
    /\ UNCHANGED <<buffers, currbuffer, run, epc, old, freed, crashed,
                   accepted, atStop, due>>
    /\ UNCHANGED <<prodVars, flushVars, fileVars>>

\* A swap that leaves the active index where it is.
Flip_none(c) == c

\* line 350
Flip(c) == IF c = 0 THEN 1 ELSE 0

\* The producers' history when the flusher swaps the buffers.
NoteSwap(ws) ==
    [p \in Producers |-> IF ws[p] = "waiting" THEN "swapped" ELSE ws[p]]

\* lines 346-355: swap the buffers, wake the blocked producers, unlock
W_Swap ==
    /\ ~crashed
    /\ UNCHANGED logVars
    /\ wpc = "inner"
    /\ expired \/ NearlyFull(buffers[currbuffer].offset)
    /\ due' = 1
    /\ expired' = FALSE
    /\ this' = currbuffer
    /\ currbuffer' = Flip(currbuffer)
    /\ ppc' = pthread_cond_broadcast(ppc)
    /\ wstate' = IF currbuffer' # currbuffer THEN NoteSwap(wstate) ELSE wstate
    /\ mutex' = pthread_mutex_unlock(WORKER)
    /\ wpc' = "flush"
    /\ UNCHANGED <<buffers, run, psize, epc, old, freed, crashed, accepted,
                   atStop, towrite, ptr, ret>>
    /\ UNCHANGED fileVars

\* lines 365-368: nothing to drain, wait on cond until next
W_Sleep ==
    /\ ~crashed
    /\ UNCHANGED logVars
    /\ wpc = "inner"
    /\ ~(expired \/ NearlyFull(buffers[currbuffer].offset))
    /\ due' = sleeptime
    /\ mutex' = pthread_mutex_unlock(WORKER)
    /\ wpc' = "timedwait"
    /\ UNCHANGED <<buffers, currbuffer, run, epc, old, freed, crashed,
                   accepted, atStop, expired>>
    /\ UNCHANGED <<prodVars, flushVars, fileVars>>

\* pthread_cond_timedwait returns: the deadline passed
W_Timeout ==
    /\ ~crashed
    /\ UNCHANGED logVars
    /\ wpc = "timedwait"
    /\ due = 0
    /\ wpc' = "wakelock"
    /\ UNCHANGED <<buffers, currbuffer, run, mutex, epc, old, freed, crashed,
                   accepted, atStop>>
    /\ UNCHANGED <<prodVars, flushVars, fileVars, timeVars>>

\* pthread_cond_timedwait returns without signal or deadline
W_Spurious ==
    /\ ~crashed
    /\ UNCHANGED logVars
    /\ wpc = "timedwait"
    /\ due > 0
    /\ wpc' = "wakelock"
    /\ UNCHANGED <<buffers, currbuffer, run, mutex, epc, old, freed, crashed,
                   accepted, atStop>>
    /\ UNCHANGED <<prodVars, flushVars, fileVars, timeVars>>

\* One second passes; it matters only while next is waited for.
Tick ==
    /\ ~crashed
    /\ UNCHANGED logVars
    /\ wpc \in {"timedwait", "wakelock"}
    /\ due > 0
    /\ due' = due - 1
    /\ UNCHANGED <<buffers, currbuffer, run, mutex, wpc, epc, old, freed,
                   crashed, accepted, atStop, expired>>
    /\ UNCHANGED <<prodVars, flushVars, fileVars>>

\* ---------------------------------------------------------- flush_pending_io
\* lines 313-316 called from line 357
W_FlushBegin ==
    /\ ~crashed
    /\ UNCHANGED logVars
    /\ wpc = "flush"
    /\ IF buffers[this].offset > 0
       THEN /\ towrite' = buffers[this].offset
            /\ ret' = buffers[this].offset
            /\ ptr' = 0
            /\ wpc' = "write"
       ELSE /\ ret' = 0
            /\ UNCHANGED <<towrite, ptr>>
            /\ wpc' = "rotate"
    /\ UNCHANGED <<buffers, currbuffer, run, mutex, epc, old, freed, crashed,
                   accepted, atStop, this>>
    /\ UNCHANGED <<prodVars, fileVars, timeVars>>

\* A retry that starts again at the beginning of the buffer.
WriteChunk_restart(f, d, at, nw) == f \o SubSeq(d, 1, nw)

\* lines 319-323: the bytes the file holds after iops.write accepted nw bytes
\* of buffer data d from position at on
WriteChunk(f, d, at, nw) == f \o SubSeq(d, at + 1, at + nw)

\* A write loop that gives up with one byte left.
MoreToWrite_stops_early(tw) == tw > 1

\* line 318: the condition of the write loop
MoreToWrite(tw) == tw > 0

\* lines 318-324: one iops.write that accepts nw of the towrite bytes
flush_write(pc) ==
    /\ ~crashed
    /\ UNCHANGED logVars
    /\ wpc = pc
    /\ MoreToWrite(towrite)
    /\ fp # NULL
    /\ \E nw \in 0..towrite :
        /\ files' = [files EXCEPT ![fp].data =
                        WriteChunk(@, buffers[this].data, ptr, nw)]
        /\ ptr' = ptr + nw
        /\ towrite' = towrite - nw
    /\ UNCHANGED <<buffers, currbuffer, run, mutex, wpc, epc, old, freed,
                   crashed, accepted, atStop, this, ret, fp, currsize,
                   next_id>>
    /\ UNCHANGED <<prodVars, timeVars>>

\* line 319 with file == NULL: fwrite on a null stream kills the process;
\* gzwrite returns 0 and the loop spins (a stuttering step)
flush_write_null(pc) ==
    /\ ~crashed
    /\ UNCHANGED logVars
    /\ wpc = pc
    /\ MoreToWrite(towrite)
    /\ fp = NULL
    /\ crashed' = TRUE
    /\ UNCHANGED <<buffers, currbuffer, run, mutex, wpc, epc, old, freed,
                   accepted, atStop>>
    /\ UNCHANGED <<prodVars, flushVars, fileVars, timeVars>>

\* lines 325-326: everything written, reset the offset and return
flush_end(pc, to) ==
    /\ ~crashed
    /\ UNCHANGED logVars
    /\ wpc = pc
    /\ ~MoreToWrite(towrite)
    /\ buffers' = [buffers EXCEPT ![this].offset = 0]
    /\ ptr' = 0
    /\ towrite' = 0
    /\ wpc' = to
    /\ UNCHANGED <<currbuffer, run, mutex, epc, old, freed, crashed,
                   accepted, atStop, this, ret>>
    /\ UNCHANGED <<prodVars, fileVars, timeVars>>

W_Write == flush_write("write")
W_WriteNull == flush_write_null("write")
W_FlushEnd == flush_end("write", "rotate")

\* A rotation test that is one byte late.
NeedRotate_late(cs) == cs > cyclesz + 1

\* line 358
NeedRotate(cs) == cs > cyclesz

\* lines 357-361: account the drained bytes, rotate when over cyclesz
W_Rotate ==
    /\ ~crashed
    /\ UNCHANGED logVars
    /\ wpc = "rotate"
    /\ IF NeedRotate(currsize + ret)
       THEN /\ \E ok \in BOOLEAN : open_logfile(close_logfile(files, fp), ok)
            /\ currsize' = 0
       ELSE /\ currsize' = currsize + ret
            /\ UNCHANGED <<fp, next_id, files>>
    /\ ret' = 0
    /\ wpc' = "relock"
    /\ UNCHANGED <<buffers, currbuffer, run, mutex, epc, old, freed, crashed,
                   accepted, atStop, this, towrite, ptr>>
    /\ UNCHANGED <<prodVars, timeVars>>

\* line 362
W_Relock ==
    /\ ~crashed
    /\ UNCHANGED logVars
    /\ wpc = "relock"
    /\ mutex = UNLOCKED
    /\ mutex' = WORKER
    /\ wpc' = "inner"
    /\ UNCHANGED <<buffers, currbuffer, run, epc, old, freed, crashed,
                   accepted, atStop>>
    /\ UNCHANGED <<prodVars, flushVars, fileVars, timeVars>>

\* ------------------------------------------------- final drain, lines 371-384
\* lines 371-375, with the mutex held; the value flush_pending_io returns is
\* not used here
W_Final ==
    /\ ~crashed
    /\ UNCHANGED logVars
    /\ wpc = "final"
    /\ IF fp # NULL
       THEN IF buffers[currbuffer].offset # 0
            THEN /\ this' = currbuffer
                 /\ currbuffer' = Flip(currbuffer)
                 /\ wstate' = IF currbuffer' # currbuffer
                               THEN NoteSwap(wstate) ELSE wstate
                 /\ towrite' = buffers[currbuffer].offset
                 /\ ptr' = 0
                 /\ wpc' = "fwrite"
            ELSE /\ wpc' = "close"
                 /\ UNCHANGED <<this, currbuffer, wstate, towrite, ptr>>
       ELSE /\ wpc' = "unlock"
            /\ UNCHANGED <<this, currbuffer, wstate, towrite, ptr>>
    /\ UNCHANGED <<buffers, run, mutex, epc, old, freed, crashed, accepted,
                   atStop, ppc, psize, ret>>
    /\ UNCHANGED <<fileVars, timeVars>>

W_FinalWrite == flush_write("fwrite")
W_FinalFlushEnd == flush_end("fwrite", "final")

\* line 377
W_Close ==
    /\ ~crashed
    /\ UNCHANGED logVars
    /\ wpc = "close"
    /\ files' = close_logfile(files, fp)
    /\ wpc' = "unlock"
    /\ UNCHANGED <<buffers, currbuffer, run, mutex, epc, old, freed, crashed,
                   accepted, atStop, fp, currsize, next_id>>
    /\ UNCHANGED <<prodVars, flushVars, timeVars>>

\* line 380
W_Unlock ==
    /\ ~crashed
    /\ UNCHANGED logVars
    /\ wpc = "unlock"
    /\ mutex' = pthread_mutex_unlock(WORKER)
    /\ wpc' = "free"
    /\ UNCHANGED <<buffers, currbuffer, run, epc, old, freed, crashed,
                   accepted, atStop>>
    /\ UNCHANGED <<prodVars, flushVars, fileVars, timeVars>>

\* lines 381-384
W_Free ==
    /\ ~crashed
    /\ UNCHANGED logVars
    /\ wpc = "free"
    /\ freed' = TRUE
    /\ wpc' = "stopped"
    /\ UNCHANGED <<buffers, currbuffer, run, mutex, epc, old, crashed,
                   accepted, atStop>>
    /\ UNCHANGED <<prodVars, flushVars, fileVars, timeVars>>

\* -------------------------------------------------------------- exit_handler
\* lines 388-391: one critical section
E_Stop ==
    /\ ~crashed
    /\ UNCHANGED logVars
    /\ epc = "idle"
    /\ mutex = UNLOCKED
    /\ run' = 0
    /\ wpc' = pthread_cond_signal(wpc)
    /\ epc' = "join"
    /\ atStop' = Len(accepted)
    /\ UNCHANGED <<buffers, currbuffer, mutex, old, freed, crashed, accepted>>
    /\ UNCHANGED <<prodVars, flushVars, fileVars, timeVars>>

\* line 393
E_Join ==
    /\ ~crashed
    /\ UNCHANGED logVars
    /\ epc = "join"
    /\ wpc = "stopped"
    /\ epc' = "done"
    /\ UNCHANGED <<buffers, currbuffer, run, mutex, wpc, old, freed, crashed,
                   accepted, atStop>>
    /\ UNCHANGED <<prodVars, flushVars, fileVars, timeVars>>

\* ------------------------------------------------------------ specification
\* The state after memcached_extensions_initialize: buffers allocated, the
\* flusher thread created, the logger registered.
Started ==
    /\ buffers = [b \in {0, 1} |->
                    [data |-> [i \in 1..buffersz |-> Unwritten], offset |-> 0]]
    /\ currbuffer = 0
    /\ run = 1
    /\ mutex = UNLOCKED
    /\ ppc = [p \in Producers |-> "idle"]
    /\ psize = [p \in Producers |-> 0]
    /\ wpc = "open"
    /\ fp = NULL
    /\ currsize = 0
    /\ next_id = 0
    /\ this = 0
    /\ towrite = 0
    /\ ptr = 0
    /\ ret = 0
    /\ expired = FALSE
    /\ due = 0
    /\ epc = "idle"
    /\ files = <<>>
    /\ old \in {{}, 0..MaxOldId}
    /\ freed = FALSE
    /\ crashed = FALSE
    /\ accepted = <<>>
    /\ wstate = [p \in Producers |-> "none"]
    /\ atStop = 0 - 1
    /\ mirror = <<>>
    /\ ncalls = 0
    /\ lastcall = [p |-> 0, severity |-> 0, fits |-> TRUE, clock |-> TRUE]

\* The flusher and the callers of add_log_entry, with the levels at their
\* defaults (lines 47 and 50).
Init ==
    /\ Started
    /\ current_log_level = EXTENSION_LOG_WARNING
    /\ output_level = EXTENSION_LOG_WARNING

Next ==
    \/ \E p \in Producers : P_Append(p)
    \/ \E p \in Producers : P_Block(p)
    \/ \E p \in Producers : P_Spurious(p)
    \/ \E p \in Producers : P_Recheck(p)
    \/ \E p \in Producers : P_Resume(p)
    \/ \E p \in Producers : P_UseAfterFree(p)
    \/ W_Open
    \/ W_Lock
    \/ W_Swap
    \/ W_Sleep
    \/ W_Timeout
    \/ W_Spurious
    \/ Tick
    \/ W_FlushBegin
    \/ W_Write
    \/ W_WriteNull
    \/ W_FlushEnd
    \/ W_Rotate
    \/ W_Relock
    \/ W_Final
    \/ W_FinalWrite
    \/ W_FinalFlushEnd
    \/ W_Close
    \/ W_Unlock
    \/ W_Free
    \/ E_Stop
    \/ E_Join

Spec == Init /\ [][Next]_vars

\* A step of the flusher thread other than a backend write and other than a
\* return of pthread_cond_timedwait before its deadline.
WorkerStep ==
    \/ W_Open \/ W_Lock \/ W_Swap \/ W_Sleep \/ W_Timeout
    \/ W_FlushBegin \/ W_FlushEnd \/ W_Rotate \/ W_Relock
    \/ W_Final \/ W_FinalFlushEnd \/ W_Close \/ W_Unlock \/ W_Free

\* Fair scheduling: the flusher thread and the thread in pthread_join run
\* when they can; a backend write that can accept bytes eventually accepts
\* some (a write of 0 bytes changes nothing); time passes, also for a flusher
\* that keeps returning early from its timed wait and computing a new
\* deadline; a producer that was woken gets the mutex if it is free again
\* and again.  Nothing makes a producer call add_log_entry, exit_handler
\* run, or a wait return without signal or deadline.
Fairness ==
    /\ WF_vars(WorkerStep)
    /\ WF_vars(W_Write)
    /\ WF_vars(W_FinalWrite)
    /\ SF_vars(Tick)
    /\ WF_vars(E_Join)
    /\ \A p \in Producers : SF_vars(P_Recheck(p) \/ P_Resume(p))

FairSpec == Spec /\ Fairness

\* The callers of logger_log, for every level the server reports (line 505)
\* and every loglevel of the configuration (lines 463-470), up to the point
\* where the flusher thread is first scheduled.
InitLog ==
    /\ Started
    /\ current_log_level \in Levels
    /\ output_level \in Levels

NextLog ==
    \/ \E p \in Producers : logger_log(p)
    \/ on_log_level
    \/ \E p \in Producers : P_Spurious(p)
    \/ \E p \in Producers : P_Recheck(p)

SpecLog == InitLog /\ [][NextLog]_vars

\* ------------------------------------------------------------------ claims
\* The flusher is inside one call of flush_pending_io.
Draining == wpc \in {"flush", "write", "fwrite"}

\* The flusher is inside the write loop of flush_pending_io.
Writing == wpc \in {"write", "fwrite"}

\* The bytes of the buffer in hand that the write loop has still to write.
Remaining == SubSeq(buffers[this].data, ptr + 1, ptr + towrite)

\* A producer is blocked in add_log_entry, waiting for room.
Blocked(p) == ppc[p] \in {"wait", "relock"}

\* s is a sequence of complete accepted records.
RECURSIVE WholeRecords(_)
WholeRecords(s) ==
    IF s = <<>> THEN TRUE
    ELSE LET id == s[1][1]
         IN  /\ id \in 1..Len(accepted)
             /\ Len(s) >= accepted[id]
             /\ \A k \in 1..accepted[id] : s[k] = Byte(id, k)
             /\ WholeRecords(SubSeq(s, accepted[id] + 1, Len(s)))

\* The bytes of the first n accepted records.
RECURSIVE BytesOfFirst(_)
BytesOfFirst(n) == IF n <= 0 THEN 0 ELSE accepted[n] + BytesOfFirst(n - 1)

\* C1: in every reachable state the bytes written to the files of this run,
\* concatenated in rotation order, are a prefix of the bytes of the accepted
\* records in append order: nothing is duplicated, reordered, overwritten or
\* dropped in between.
C1_WrittenIsPrefixOfAccepted == IsPrefix(WrittenBytes, AcceptedBytes)

\* Three records from the run have gone through both buffers and a rotation
\* and are all on disk, in two files.
C1_Witness ==
    /\ Len(accepted) >= 3
    /\ Len(files) >= 2
    /\ files[1].data # <<>>
    /\ files[2].data # <<>>
    /\ WrittenBytes = AcceptedBytes

\* C6: every accepted record lies whole in one buffer, and every completed
\* drain has written a whole number of complete records to one file: while a
\* drain is writing, the file and the rest of the buffer together are whole
\* records.
C6_RecordsAreWhole ==
    /\ \A b \in {0, 1} : WholeRecords(BufBytes(b))
    /\ \A i \in 1..Len(files) :
          WholeRecords(IF Writing /\ i = fp
                       THEN files[i].data \o Remaining
                       ELSE files[i].data)

\* One drain has just written two complete records.
C6_Witness ==
    /\ wpc = "rotate"
    /\ Len(accepted) >= 2
    /\ ret = accepted[1] + accepted[2]
    /\ WrittenBytes = SubSeq(AcceptedBytes, 1, ret)

\* C7: in every reachable state both buffers have 0 <= offset <= buffersz.
C7_OffsetWithinCapacity ==
    \A b \in {0, 1} : 0 <= buffers[b].offset /\ buffers[b].offset <= buffersz

\* The active buffer is as full as it gets and a producer waits for room.
C7_Witness ==
    /\ buffers[currbuffer].offset = buffersz - 1
    /\ \E p \in Producers : ppc[p] = "wait"

\* C8: exactly one buffer is active; the other one is empty or is being
\* drained by the flusher; the flusher never drains the active buffer, the
\* only one producers write to; and whenever the flusher is about to swap, the
\* buffer that becomes active is empty.
C8_BufferExclusivity ==
    /\ currbuffer \in {0, 1}
    /\ \/ buffers[Flip(currbuffer)].offset = 0
       \/ Draining /\ this = Flip(currbuffer)
    /\ Draining => this # currbuffer
    /\ wpc \in {"inner", "final"} => buffers[Flip(currbuffer)].offset = 0

\* Producers have filled the active buffer while the flusher is half way
\* through writing the other one.
C8_Witness ==
    /\ wpc = "write"
    /\ ptr > 0
    /\ towrite > 0
    /\ this # currbuffer
    /\ buffers[currbuffer].offset > 0

\* C2: when the flusher leaves the final drain and goes on to exit (line 380),
\* every record accepted before run was cleared is in the files and both
\* buffers are empty.
C2_ShutdownDrainsEverything ==
    wpc = "unlock" =>
        /\ Len(WrittenBytes) >= BytesOfFirst(atStop)
        /\ \A b \in {0, 1} : buffers[b].offset = 0

\* What the code does guarantee for C2: the same, for a flusher that still has
\* a file handle at shutdown.
ShutdownDrainsWithHandle ==
    (wpc = "unlock" /\ fp # NULL) =>
        /\ WrittenBytes = AcceptedBytes
        /\ \A b \in {0, 1} : buffers[b].offset = 0

\* C3: a producer blocked in add_log_entry returns (its only copy) only after
\* the flusher swapped the buffers since it began to wait; and while a
\* producer is blocked, a step leaves the used bytes of each buffer in place,
\* appending at most, unless it ends a drain that wrote all of them.
C3_BlockedUntilSwap ==
    [][ /\ \A p \in Producers :
              (Blocked(p) /\ ppc'[p] = "idle") => wstate[p] = "swapped"
        /\ (\E p \in Producers : Blocked(p)) =>
              \A b \in {0, 1} :
                  \/ IsPrefix(BufBytes(b), BufBytes(b)')
                  \/ /\ Writing /\ this = b /\ towrite = 0
                     /\ ptr = buffers[b].offset
                     /\ buffers'[b].offset = 0 ]_vars

\* A producer that waited has been woken by a swap and finds room, while the
\* buffer it waited for is still being drained.
C3_Witness ==
    \E p \in Producers :
        /\ ppc[p] = "relock"
        /\ wstate[p] = "swapped"
        /\ ~NoRoom(buffers[currbuffer].offset, psize[p])
        /\ buffers[Flip(currbuffer)].offset > 0

\* C4: once run is cleared, no call of add_log_entry copies a record into a
\* buffer or starts to wait for room.
C4_NoAppendAfterShutdown ==
    [][ run = 0 => ~(\E p \in Producers : P_Append(p) \/ P_Block(p)) ]_vars

\* C5 as stated: whenever flush_pending_io is writing, in the run loop or in
\* the final drain, the flusher does not hold the mutex.
C5_NeverLockedWhileWriting == Writing => mutex # WORKER

\* C5 as amended: the drain of the run loop (lines 355-362) runs without the
\* mutex; the final drain (lines 371-378) runs with it.
C5_UnlockedInRunLoopOnly ==
    /\ wpc \in {"flush", "write", "rotate"} => mutex = UNLOCKED
    /\ wpc = "fwrite" => mutex = WORKER

\* The flusher is half way through a write of the run loop and the mutex is
\* free.
C5_Witness ==
    /\ wpc = "write"
    /\ ptr > 0
    /\ towrite > 0
    /\ mutex = UNLOCKED

\* The bytes the file in hand held when the current drain began.
AtDrainStart == Len(files[fp].data) - ptr

\* The step is the flusher's pass through lines 357-361.
RotateStep == wpc = "rotate" /\ wpc' = "relock"

\* Lines 357-361 leave the counter at 0 although bytes were accounted: it was
\* set back.
CounterReset == RotateStep /\ currsize' = 0 /\ currsize + ret > 0

\* Lines 357-361 called reopen_logfile.
Reopened == RotateStep /\ next_id' # next_id

\* C9 as stated: a drain never begins on a file that has reached cyclesz
\* bytes, and the counter is reset in exactly the steps that open a new file
\* for rotation.
C9_RotateOnReach ==
    /\ [](Writing /\ fp # NULL => AtDrainStart < cyclesz)
    /\ [][CounterReset <=> (RotateStep /\ Len(files') > Len(files))]_vars

\* C9 as amended: a drain never begins on a file that holds more than cyclesz
\* bytes, and the counter is reset in exactly the steps that rotate (close the
\* file and call open_logfile), which are the steps at line 358 that find the
\* counter over cyclesz, whether or not the open succeeds.
C9_RotateOnExceed ==
    /\ [](Writing /\ fp # NULL => AtDrainStart <= cyclesz)
    /\ [][ /\ CounterReset <=> Reopened
           /\ Reopened <=> (RotateStep /\ currsize + ret > cyclesz) ]_vars

\* The first file was closed with more than cyclesz bytes and the next drain
\* has written to the second one.
C9_Witness ==
    /\ Len(files) >= 2
    /\ Len(files[1].data) > cyclesz
    /\ ~files[1].open
    /\ files[2].data # <<>>
    /\ wpc = "rotate"

\* C10: with no file handle the flusher is never in its drain loop: it does
\* not test for work, swap, write or wait.
C10_OpenFailureIsFatal ==
    fp = NULL => wpc \notin {"inner", "flush", "write", "timedwait", "wakelock"}

\* The last n elements of s.
Suffix(s, n) == SubSeq(s, Len(s) - n + 1, Len(s))

\* C11: inside a drain the bytes written so far and the bytes still to write
\* make up the buffer, and the file in hand ends with exactly the bytes
\* written so far; every write appends to the file the next bytes of the
\* buffer, none for a write that returned 0; and a buffer that holds bytes is
\* set back to offset 0 only in a step before which the file in hand ends
\* with all of them.
C11_NothingDroppedOnShortWrite ==
    /\ [](Writing /\ fp # NULL =>
            /\ ptr + towrite = buffers[this].offset
            /\ Len(files[fp].data) >= ptr
            /\ Suffix(files[fp].data, ptr) = SubSeq(buffers[this].data, 1, ptr))
    /\ [][ /\ (Writing /\ ptr' # ptr /\ wpc' = wpc) =>
                /\ ptr' > ptr
                /\ ptr' + towrite' = buffers[this].offset
                /\ files'[fp].data =
                      files[fp].data \o SubSeq(buffers[this].data, ptr + 1, ptr')
           /\ \A b \in {0, 1} :
                (buffers[b].offset > 0 /\ buffers'[b].offset = 0) =>
                    /\ fp # NULL
                    /\ Len(files[fp].data) >= buffers[b].offset
                    /\ Suffix(files[fp].data, buffers[b].offset) = BufBytes(b)
         ]_vars

\* A write of the run loop took one byte of a record of three; two are left
\* for the retry.
C11_Witness ==
    /\ wpc = "write"
    /\ fp # NULL
    /\ buffers[this].offset = MaxSize
    /\ ptr = 1
    /\ towrite = MaxSize - 1

\* C15: next_id never decreases and grows with every call of open_logfile;
\* the files of this run have ids that increase strictly in opening order,
\* lie below next_id and are not ids of an earlier run; and a step that
\* opens a file gives it an id from next_id on that no file had, leaves
\* next_id above that id, and leaves the files opened before as they were.
C15_SequenceNeverReused ==
    /\ [](\A i \in 1..Len(files) :
            /\ files[i].id \notin old
            /\ files[i].id < next_id
            /\ \A j \in 1..Len(files) : i < j => files[i].id < files[j].id)
    /\ [][ /\ next_id' >= next_id
           /\ (wpc = "open" /\ wpc' # wpc) => next_id' > next_id
           /\ Reopened => next_id' > next_id
           /\ Len(files') > Len(files) =>
                LET f == files'[Len(files')]
                IN  /\ Len(files') = Len(files) + 1
                    /\ f.id >= next_id
                    /\ f.id \notin Existing
                    /\ next_id' = f.id + 1
                    /\ \A i \in 1..Len(files) :
                          /\ files'[i].id = files[i].id
                          /\ files'[i].data = files[i].data
         ]_vars

\* An earlier run left a file, and this run has opened its second file.
C15_Witness ==
    /\ old # {}
    /\ Len(files) >= 2
    /\ files[1].data # <<>>

\* The step is producer p's test at line 176 going into pthread_cond_wait.
StartsWait(p) == ppc[p] \in {"idle", "relock"} /\ ppc'[p] = "wait"

\* The step is producer p's copy at lines 185-187.
Copies(p) ==
    /\ ppc[p] \in {"idle", "relock"}
    /\ ppc'[p] = "idle"
    /\ Len(accepted') = Len(accepted) + 1

\* The record the step Copies(p) copied, as bytes.
Copied == [k \in 1..accepted'[Len(accepted')] |-> Byte(Len(accepted'), k)]

\* C16 as stated: a call waits only if offset + size > buffersz, and a copy
\* happens with offset + size <= buffersz, at the offset.
C16_WaitsOnlyOverCapacity ==
    [][ \A p \in Producers :
          /\ StartsWait(p) =>
                buffers[currbuffer].offset + psize'[p] > buffersz
          /\ Copies(p) =>
                /\ buffers[currbuffer].offset + Len(Copied) <= buffersz
                /\ BufBytes(currbuffer)' = BufBytes(currbuffer) \o Copied
      ]_vars

\* C16 as amended: a call waits exactly if offset + size >= buffersz, so a
\* record that would fill the buffer to the last byte waits too; a copy
\* happens only with offset + size < buffersz, at the offset, and moves the
\* offset on by the size.
C16_WaitsFromExactFill ==
    [][ \A p \in Producers :
          /\ StartsWait(p) =>
                buffers[currbuffer].offset + psize'[p] >= buffersz
          /\ Copies(p) =>
                /\ buffers[currbuffer].offset + Len(Copied) < buffersz
                /\ BufBytes(currbuffer)' = BufBytes(currbuffer) \o Copied
                /\ buffers'[currbuffer].offset =
                      buffers[currbuffer].offset + Len(Copied)
                /\ buffers'[Flip(currbuffer)] = buffers[Flip(currbuffer)]
      ]_vars

\* A producer waits with a record that would fill the active buffer exactly.
C16_Witness ==
    \E p \in Producers :
        /\ ppc[p] = "wait"
        /\ wstate[p] = "waiting"
        /\ buffers[currbuffer].offset + psize[p] = buffersz

\* The active buffer is over three quarters of its capacity.
AboveMark == buffers[currbuffer].offset * 4 > buffersz * 3

\* C17: the flusher is never in its timed wait with the active buffer over
\* the mark, and when it holds the mutex at the loop test (after a drain or
\* after waking) with the active buffer over the mark, its next step swaps
\* the buffers and starts a drain of the one that was active.
C17_NoSleepAboveMark ==
    /\ [](wpc = "timedwait" => ~AboveMark)
    /\ [][ (wpc = "inner" /\ AboveMark /\ wpc' # wpc) =>
                /\ wpc' = "flush"
                /\ this' = currbuffer
                /\ currbuffer' # currbuffer
         ]_vars

\* The flusher has finished a drain and has not yet taken the mutex again,
\* while producers have filled the new active buffer over the mark: their
\* signal found nobody waiting.
C17_Witness ==
    /\ wpc = "relock"
    /\ run = 1
    /\ AboveMark

\* The step is the return of pthread_cond_timedwait to the test of run.
WakeStep == wpc = "wakelock" /\ wpc' \in {"inner", "final"}

\* The step swaps the buffers and starts a drain of the one that was active.
SwapStep ==
    /\ wpc \in {"inner", "final"}
    /\ wpc' \in {"flush", "fwrite"}
    /\ this' = currbuffer
    /\ currbuffer' # currbuffer

\* The flusher is at a loop test that will swap and drain: lines 346-347
\* with the deadline reached or the active buffer over the mark, or line 372
\* with a file handle and a non-empty active buffer.
WillDrain ==
    \/ wpc = "inner" /\ (expired \/ AboveMark)
    \/ wpc = "final" /\ fp # NULL /\ buffers[currbuffer].offset > 0

\* What a loop test does is what WillDrain says, and the timed wait is
\* entered only from a loop test that found nothing to drain.
LoopTestDecides ==
    /\ (wpc \in {"inner", "final"} /\ wpc' # wpc) => (SwapStep <=> WillDrain)
    /\ (wpc # "timedwait" /\ wpc' = "timedwait") =>
           (wpc = "inner" /\ ~WillDrain)

\* C18 as stated: a wake that finds bytes in the active buffer, or the
\* deadline reached, leads to a swap and a drain.
C18_WakeDrainsAnyContent ==
    [][ /\ (WakeStep /\ (buffers[currbuffer].offset > 0 \/ due = 0)) =>
               WillDrain'
        /\ LoopTestDecides ]_vars

\* C18 as amended: a wake with run set leads to a swap and a drain exactly
\* if the deadline is reached or the active buffer is over the mark; a wake
\* with run cleared exactly if there is a file handle and the active buffer
\* is not empty.
C18_WakeDrainsOverMarkOrDeadline ==
    [][ /\ WakeStep =>
               (WillDrain' <=>
                   \/ run = 1 /\ (due = 0 \/ AboveMark)
                   \/ run = 0 /\ fp # NULL /\ buffers[currbuffer].offset > 0)
        /\ LoopTestDecides ]_vars

\* After an earlier drain and an idle wait the flusher woke at the deadline
\* and is about to swap out a buffer that holds bytes below the mark.
C18_Witness ==
    /\ wpc = "inner"
    /\ expired
    /\ WrittenBytes # <<>>
    /\ buffers[currbuffer].offset > 0
    /\ ~AboveMark

\* C19: the flusher is never in its timed wait on cond with run cleared.
\* (exit_handler's signal takes a flusher that is waiting out of the wait in
\* the step that clears run, so such a state means the wait began after.)
C19_NoWaitAfterStop == wpc = "timedwait" => run = 1

\* The flusher has no file to write to, or the process died.
BackendLost == crashed \/ (fp = NULL /\ wpc # "open")

\* C13: once run is cleared, exit_handler's join eventually returns.
C13_ShutdownTerminates == (run = 0) ~> (epc = "done")

\* What the code does guarantee for C13: the join returns unless the flusher
\* is left without a file handle or the process dies.
ShutdownTerminatesWithBackend == (run = 0) ~> (epc = "done" \/ BackendLost)

\* C20: a producer blocked in add_log_entry eventually copies its record and
\* returns, as long as there is a backend that can make progress.
C20_BlockedEventuallyReturns ==
    \A p \in Producers : Blocked(p) ~> (ppc[p] = "idle" \/ BackendLost)

\* What the code does guarantee for C20: a blocked producer returns unless
\* shutdown is requested or the backend is lost.
BlockedReturnsWhileRunning ==
    \A p \in Producers :
        Blocked(p) ~> (ppc[p] = "idle" \/ BackendLost \/ run = 0)

\* C12: a call of add_log_entry goes into the wait for room only when the
\* active buffer holds bytes: with an empty buffer there is room for every
\* record the configuration lets through.
C12_NoWaitOnEmptyBuffer ==
    [][ \A p \in Producers :
            StartsWait(p) => buffers[currbuffer].offset > 0 ]_vars

\* The step is a call of logger_log by producer p.
LogStep(p) == ncalls' = ncalls + 1 /\ lastcall'.p = p

\* The step leaves the buffers and the accepted records as they were, and
\* producer p is not left waiting.
NothingAppended(p) ==
    /\ buffers' = buffers
    /\ accepted' = accepted
    /\ ppc'[p] = "idle"

\* C14 as stated: a call with a severity below current_log_level appends
\* nothing, and every call with a severity at or above output_level has put
\* its record on stderr when it returns or waits.
C14_MirrorsAlways ==
    [][ \A p \in Producers : LogStep(p) =>
          /\ lastcall'.severity < current_log_level => NothingAppended(p)
          /\ lastcall'.severity >= output_level =>
                mirror' = Append(mirror, ncalls')
      ]_vars

\* C14 as amended: a call with a severity below current_log_level appends
\* nothing; a call puts its record on stderr exactly if the severity is at or
\* above output_level, the record fits the rendering buffer and
\* gettimeofday succeeded, whatever current_log_level is; under the same two
\* conditions a call with a severity at or above current_log_level copies
\* its record or waits for room with it.
C14_MirrorsUnlessDropped ==
    [][ \A p \in Producers : LogStep(p) =>
          /\ lastcall'.severity < current_log_level => NothingAppended(p)
          /\ IF /\ lastcall'.severity >= output_level
                /\ lastcall'.fits
                /\ lastcall'.clock
             THEN mirror' = Append(mirror, ncalls')
             ELSE mirror' = mirror
          /\ ( /\ lastcall'.severity >= current_log_level
               /\ lastcall'.fits
               /\ lastcall'.clock ) =>
                \/ Copies(p)
                \/ StartsWait(p)
      ]_vars

\* The latest call had a severity at or above output_level and below
\* current_log_level: its record is on stderr and in no buffer.
C14_Witness ==
    /\ ncalls >= 1
    /\ lastcall.severity >= output_level
    /\ lastcall.severity < current_log_level
    /\ mirror # <<>>
    /\ mirror[Len(mirror)] = ncalls
    /\ accepted = <<>>
    /\ \A q \in Producers : ppc[q] = "idle"
====
